---- MODULE Spec2Model ----
(***************************************************************************)
(* Model of chefsplan-mvp/orchestrator_gui/app.py: the orchestrator file   *)
(* dashboard (reader, section parser, claim splicer, claim endpoint,       *)
(* change watcher, connect handler).                                       *)
(*                                                                         *)
(* Text is a sequence of tokens.  A token is an indivisible piece of text: *)
(* one of the four section markers, the two halves of the placeholder line *)
(* ("(Empty" is the part the code tests for, the two together are what it  *)
(* removes), the task id prefix "CP-", a whitespace character, or another  *)
(* character.  No marker is a substring of another and no marker overlaps  *)
(* another, so searching for a marker in the text is searching for its     *)
(* token.  Positions are 0-based and find returns -1, as in the source.    *)
(* The dash of the placeholder line is written in ASCII here.              *)
(***************************************************************************)
EXTENDS Integers, Sequences, FiniteSets, TLC

\* ---------------------------------------------------------------- bounds
MaxMtime == 1
MaxPureLen == 6
MaxClaims == 2

\* ---------------------------------------------------------------- tokens
TASK_BOARD == "Task Board"
ACTIVE_CLAIMS == "Active Claims"
BLOCKERS == "Blockers"
ACTIVITY_LOG == "Activity Log"
NL == "\n"
SP == " "
PlaceholderHead == "(Empty"
PlaceholderTail == " - agents must add entries here before starting work)"
Placeholder == <<PlaceholderHead, PlaceholderTail>>
CP == "CP-"

Whitespace == {NL, SP}

\* ------------------------------------------------------- str primitives
\* text[a:b] for 0 <= a, b (Python slice, clipped to the text)
Slice(text, a, b) ==
  LET hi == IF b > Len(text) THEN Len(text) ELSE b
  IN IF a >= hi THEN <<>> ELSE SubSeq(text, a + 1, hi)

\* text[a:]
SliceFrom(text, a) == Slice(text, a, Len(text))

\* text starts with sub at 0-based position i
MatchAt(text, sub, i) ==
  /\ i >= 0
  /\ i + Len(sub) <= Len(text)
  /\ \A k \in 1..Len(sub) : text[i + k] = sub[k]

\* str.find(sub, start): lowest position >= start, or -1
Find(text, sub, start) ==
  LET hits == {i \in start..(Len(text) - Len(sub)) : MatchAt(text, sub, i)}
  IN IF hits = {} THEN -1 ELSE CHOOSE i \in hits : \A j \in hits : i <= j

\* sub in text
Contains(text, sub) == Find(text, sub, 0) # -1

\* str.startswith
StartsWith(text, sub) == MatchAt(text, sub, 0)

\* str.endswith
EndsWith(text, sub) == MatchAt(text, sub, Len(text) - Len(sub))

\* str.rstrip()
RECURSIVE RStrip(_)
RStrip(text) ==
  IF text # <<>> /\ text[Len(text)] \in Whitespace
  THEN RStrip(SubSeq(text, 1, Len(text) - 1))
  ELSE text

\* str.lstrip()
RECURSIVE LStrip(_)
LStrip(text) ==
  IF text # <<>> /\ text[1] \in Whitespace THEN LStrip(Tail(text)) ELSE text

\* str.strip()
Strip(text) == LStrip(RStrip(text))

\* str.replace(old, ""): every non-overlapping occurrence, left to right
RECURSIVE Remove(_, _)
Remove(text, old) ==
  LET i == Find(text, old, 0)
  IN IF i = -1 THEN text
     ELSE Slice(text, 0, i) \o Remove(SliceFrom(text, i + Len(old)), old)

\* ------------------------------------------------------- section parser
NoEnd == <<>>

\* extract_block with the block starting after its marker, not at it
extract_block_after(text, start_marker, end_marker) ==
  LET start_idx == Find(text, <<start_marker>>, 0)
  IN IF start_idx = -1 THEN <<>>
     ELSE IF end_marker = NoEnd THEN SliceFrom(text, start_idx + 1)
     ELSE LET end_idx == Find(text, end_marker, start_idx)
          IN IF end_idx = -1 THEN SliceFrom(text, start_idx + 1)
             ELSE Slice(text, start_idx + 1, end_idx)

\* extract_block with the end marker searched from the start of the text, not
\* from the block's own marker
extract_block_from_zero(text, start_marker, end_marker) ==
  LET start_idx == Find(text, <<start_marker>>, 0)
  IN IF start_idx = -1 THEN <<>>
     ELSE IF end_marker = NoEnd THEN SliceFrom(text, start_idx)
     ELSE LET end_idx == Find(text, end_marker, 0)
          IN IF end_idx = -1 THEN SliceFrom(text, start_idx)
             ELSE Slice(text, start_idx, end_idx)

\* extract_block(text, start_marker, end_marker); end_marker None is <<>>
extract_block(text, start_marker, end_marker) ==
  LET start_idx == Find(text, <<start_marker>>, 0)
  IN IF start_idx = -1 THEN <<>>
     ELSE IF end_marker = NoEnd THEN SliceFrom(text, start_idx)
     ELSE LET end_idx == Find(text, end_marker, start_idx)
          IN IF end_idx = -1 THEN SliceFrom(text, start_idx)
             ELSE Slice(text, start_idx, end_idx)

parse_sections(full_text) ==
  [ task_board    |-> Strip(extract_block(full_text, TASK_BOARD, <<ACTIVE_CLAIMS>>)),
    active_claims |-> Strip(extract_block(full_text, ACTIVE_CLAIMS, <<BLOCKERS>>)),
    blockers      |-> Strip(extract_block(full_text, BLOCKERS, <<ACTIVITY_LOG>>)),
    activity_log  |-> Strip(extract_block(full_text, ACTIVITY_LOG, NoEnd)) ]

\* -------------------------------------------------------- claim splicer
\* What insert_claim_line raises
Raised == <<"ValueError">>

\* lines 58-62 with the replace left out: the placeholder line stays
StripPlaceholderKept(claims_section) ==
  IF Contains(claims_section, <<PlaceholderHead>>)
  THEN RStrip(claims_section) \o <<NL>>
  ELSE claims_section

\* lines 58-62: the section with the placeholder line removed
StripPlaceholder(claims_section) ==
  IF Contains(claims_section, <<PlaceholderHead>>)
  THEN RStrip(Remove(claims_section, Placeholder)) \o <<NL>>
  ELSE claims_section

\* lines 70-72: the section ending in exactly one newline
Normalize(claims_section) ==
  LET normalized == RStrip(claims_section)
                    \o (IF ~EndsWith(claims_section, <<NL>>) THEN <<NL>> ELSE <<>>)
  IN IF ~EndsWith(normalized, <<NL>>) THEN normalized \o <<NL>> ELSE normalized

\* insert_claim_line without the check of line 56: with no Blockers marker the
\* section runs to the end of the text
insert_claim_line_to_end(full_text, line) ==
  LET start == Find(full_text, <<ACTIVE_CLAIMS>>, 0)
  IN IF start = -1 THEN Raised
     ELSE LET found == Find(full_text, <<BLOCKERS>>, start)
              blk_start == IF found = -1 THEN Len(full_text) ELSE found
              claims_section == StripPlaceholder(Slice(full_text, start, blk_start))
          IN Slice(full_text, 0, start) \o Normalize(claims_section) \o Strip(line) \o <<NL>>
             \o SliceFrom(full_text, blk_start)

\* insert_claim_line(full_text, line): the new text, or Raised
insert_claim_line(full_text, line) ==
  LET start == Find(full_text, <<ACTIVE_CLAIMS>>, 0)
  IN IF start = -1 THEN Raised
     ELSE LET blk_start == Find(full_text, <<BLOCKERS>>, start)
          IN IF blk_start = -1 THEN Raised
             ELSE LET claims_section == StripPlaceholder(Slice(full_text, start, blk_start))
                      before == Slice(full_text, 0, start)
                      after == SliceFrom(full_text, blk_start)
                      updated_section == Normalize(claims_section) \o Strip(line) \o <<NL>>
                  IN before \o updated_section \o after

\* ------------------------------------------------------------ file reader
NOT_FOUND == "[Errno 2] No such file or directory"
DENIED == "[Errno 13] Permission denied"

\* line 18: the in-band error string
ErrorText(e) == <<"ERROR reading AGENTS_ORCHESTRATOR.txt: ", e>>

\* the file as the file system holds it; an absent file has no text and no mtime
Absent == [exists |-> FALSE, text |-> <<>>, mtime |-> 0]
Present(text, mtime) == [exists |-> TRUE, text |-> text, mtime |-> mtime]

MTimes == 0..MaxMtime

\* read_orchestrator_file(): what a read of file f can return.  A read of a
\* present file can still fail (permissions, transient I/O error).
read_orchestrator_file(f) ==
  IF f.exists THEN {f.text, ErrorText(DENIED)} ELSE {ErrorText(NOT_FOUND)}

\* lines 121-126: the SectionSet broadcast while the file is missing
MissingSet ==
  [ task_board    |-> <<"AGENTS_ORCHESTRATOR.txt not found">>,
    active_claims |-> <<>>,
    blockers      |-> <<>>,
    activity_log  |-> <<>> ]

\* ---------------------------------------------------------- claim endpoint
SECRET == "s3cret"

\* line 81 without the test that a secret is configured
AuthorizedByEquality(token, provided) == provided = token

\* line 81 negated: the request may go on
Authorized(token, provided) == ~(token = "" \/ provided # token)

\* lines 83-88: the request's fields, trimmed
Fields(data) ==
  [ task_id   |-> Strip(data.taskId),
    agent     |-> Strip(data.agent),
    start_utc |-> Strip(data.startUtc),
    eta       |-> Strip(data.eta),
    scope     |-> Strip(data.scope),
    branch    |-> Strip(data.branch) ]

\* line 90
ValidTaskId(task_id) == StartsWith(task_id, <<CP>>)

\* line 92 negated
AllPresent(f) ==
  ~(f.agent = <<>> \/ f.start_utc = <<>> \/ f.eta = <<>> \/ f.scope = <<>> \/ f.branch = <<>>)

\* the response of api_claim: jsonify(...), code
Resp(code, error) == [code |-> code, error |-> error]
NoResp == Resp(0, "")

\* lines 78-93 with the three checks in the opposite order
ValidateFieldsFirst(token, data) ==
  IF ~AllPresent(Fields(data)) THEN Resp(400, "missing fields")
  ELSE IF ~ValidTaskId(Fields(data).task_id) THEN Resp(400, "invalid taskId")
  ELSE IF ~Authorized(token, data.token) THEN Resp(401, "unauthorized")
  ELSE NoResp

\* lines 78-93: the rejection, or NoResp when the request goes on to the file
Validate(token, data) ==
  IF ~Authorized(token, data.token) THEN Resp(401, "unauthorized")
  ELSE IF ~ValidTaskId(Fields(data).task_id) THEN Resp(400, "invalid taskId")
  ELSE IF ~AllPresent(Fields(data)) THEN Resp(400, "missing fields")
  ELSE NoResp

Bar == <<SP, "|", SP>>

\* line 100
ClaimLine(f) ==
  f.task_id \o Bar \o f.agent \o Bar \o f.start_utc \o Bar \o f.eta
            \o Bar \o f.scope \o Bar \o f.branch

\* line 98
AlreadyClaimed(full_text, task_id) ==
  Contains(parse_sections(full_text).active_claims, task_id)

\* ------------------------------------------------------------------ state
VARIABLES
  ORCH_FILE,         \* the coordination file: [exists, text, mtime]
  ORCH_WRITE_TOKEN,  \* the configured secret; "" when unset or empty
  req,               \* the api_claim handlers, one per slot
  wpc,               \* where the watcher thread is
  last_mtime,        \* the watcher's remembered timestamp
  wtext,             \* the text the watcher has read and not yet broadcast
  cpc,               \* where the connect handler is
  ctext,             \* the text the connect handler has read
  emit,              \* the orchestrator_update the last step emitted, if any
  last_update,       \* the most recent orchestrator_update, if any
  unseen,            \* content changes since the last broadcast (history, up to 2)
  wseen,             \* changes the watcher found since the timestamp last changed (history, up to 2)
  wprev,             \* whether the watcher's previous stat found the file (history)
  pf,                \* an application of a pure function: [op, full_text, line, out]
  hist               \* the history recorded (fixed by Init): "view" for last_update,
                     \* "changes" for unseen, wseen and wprev

vars == <<ORCH_FILE, ORCH_WRITE_TOKEN, req, wpc, last_mtime, wtext, cpc, ctext,
          emit, last_update, unseen, wseen, wprev, pf, hist>>

Reqs == {"r1", "r2"}

NoData ==
  [ token |-> "", taskId |-> <<>>, agent |-> <<>>, startUtc |-> <<>>,
    eta |-> <<>>, scope |-> <<>>, branch |-> <<>> ]

\* a handler: where it is, the request, the text it read, the text it spliced,
\* its response, and how often it has modified the file and emitted so far
IdleReq ==
  [ pc |-> "idle", data |-> NoData, full_text |-> <<>>, updated |-> <<>>, resp |-> NoResp,
    writes |-> 0, emits |-> 0 ]

PfIdle == [op |-> "none", full_text |-> <<>>, line |-> <<>>, out |-> <<>>]

\* ----------------------------------------------------------------- inputs
Base ==
  [ token |-> SECRET, taskId |-> <<SP, CP, "1", NL>>, agent |-> <<"a">>, startUtc |-> <<"s">>,
    eta |-> <<"e">>, scope |-> <<"b">>, branch |-> <<"f">> ]

\* the submissions of the endpoint specification
Submissions ==
  { Base,
    [Base EXCEPT !.token = ""],
    [Base EXCEPT !.agent = <<SP>>],
    [Base EXCEPT !.taskId = <<CP, BLOCKERS>>],
    [Base EXCEPT !.taskId = <<"4", "2">>, !.agent = <<SP>>],
    [Base EXCEPT !.token = "wrong", !.taskId = <<"4", "2">>, !.agent = <<SP>>] }

\* the submissions of the race specification: claim lines of two lengths
RaceSubmissions == {Base, [Base EXCEPT !.taskId = <<CP, "2", "0">>]}

\* the submissions of the specification with the watcher
WatchSubmissions == {Base, [Base EXCEPT !.token = "wrong"]}

DocFresh ==
  <<TASK_BOARD, NL, ACTIVE_CLAIMS, NL, PlaceholderHead, PlaceholderTail, NL, NL,
    BLOCKERS, NL, ACTIVITY_LOG, NL>>
DocNoBlockers == <<TASK_BOARD, NL, ACTIVE_CLAIMS, NL, CP, "1", NL>>
DocNoClaims == <<TASK_BOARD, NL, BLOCKERS, NL, ACTIVITY_LOG>>

\* the documents an editor outside the process puts in the file
Docs == {DocFresh, DocNoBlockers, DocNoClaims}
WatchDocs == {DocFresh, DocNoClaims}

\* the timestamps a write can leave; with no watcher running nothing reads the
\* timestamp and it is kept at 0
Stamps == IF wpc = "off" THEN {0} ELSE MTimes

Files(docs, stamps) == {Absent} \cup {Present(d, m) : d \in docs, m \in stamps}

\* the claim lines in a text
ClaimLines(text) == Cardinality({i \in 1..Len(text) : text[i] = "|"}) \div 5

\* ---------------------------------------------------------------- helpers
Min2(n) == IF n >= 2 THEN 2 ELSE n

\* socketio.emit("orchestrator_update", s)
Broadcast(s) == emit' = <<s>> /\ last_update' = IF "view" \in hist THEN <<s>> ELSE last_update

\* a step that emits nothing
Silent == emit' = <<>> /\ UNCHANGED last_update

\* the history variables, from what the step did to the file and the channel
History ==
  IF "changes" \notin hist THEN UNCHANGED <<unseen, wseen, wprev>> ELSE
  /\ unseen' = IF emit' # <<>> THEN 0
               ELSE IF ORCH_FILE'.exists # ORCH_FILE.exists \/ ORCH_FILE'.text # ORCH_FILE.text
                    THEN Min2(unseen + 1)
                    ELSE unseen
  /\ wseen' = IF ORCH_FILE'.exists # ORCH_FILE.exists \/ ORCH_FILE'.mtime # ORCH_FILE.mtime
              THEN 0
              ELSE IF wpc = "stat" /\ wpc' = "read" THEN Min2(wseen + 1)
              ELSE wseen
  /\ wprev' = IF wpc = "stat" /\ wpc' \in {"read", "sleep"} THEN TRUE
              ELSE IF wpc = "stat" /\ wpc' = "missing" THEN FALSE
              ELSE wprev

InFlight(r) == req[r].pc \notin {"idle", "done"}

Done(r, resp) == [req EXCEPT ![r].pc = "done", ![r].resp = resp]

\* ---------------------------------------------------------------- api_claim
\* lines 78-93: a request arrives in slot r and is authorized and validated
ClaimArrive(r, d) ==
  /\ ~InFlight(r)
  /\ ClaimLines(ORCH_FILE.text) < MaxClaims
  /\ LET v == Validate(ORCH_WRITE_TOKEN, d)
     IN req' = [req EXCEPT ![r] =
                  [ pc |-> IF v = NoResp THEN "read" ELSE "done", data |-> d,
                    full_text |-> <<>>, updated |-> <<>>, resp |-> v,
                    writes |-> 0, emits |-> 0 ]]
  /\ Silent
  /\ UNCHANGED <<ORCH_FILE, ORCH_WRITE_TOKEN, wpc, last_mtime, wtext, cpc, ctext, pf, hist>>
  /\ History

\* lines 96-102 with the notification of line 108 moved before the duplicate
\* check: the text read is broadcast whatever the outcome
ClaimReadNotifying(r) ==
  /\ req[r].pc = "read"
  /\ \E t \in read_orchestrator_file(ORCH_FILE) :
       LET f == Fields(req[r].data)
           u == insert_claim_line(t, ClaimLine(f))
       IN /\ req' = [req EXCEPT ![r] =
               IF AlreadyClaimed(t, f.task_id)
               THEN [@ EXCEPT !.pc = "done", !.full_text = t, !.emits = @ + 1,
                              !.resp = Resp(409, "task already claimed")]
               ELSE IF u = Raised
               THEN [@ EXCEPT !.pc = "done", !.full_text = t, !.emits = @ + 1,
                              !.resp = Resp(500, "ValueError")]
               ELSE [@ EXCEPT !.pc = "open", !.full_text = t, !.emits = @ + 1, !.updated = u]]
          /\ Broadcast(parse_sections(t))
  /\ UNCHANGED <<ORCH_FILE, ORCH_WRITE_TOKEN, wpc, last_mtime, wtext, cpc, ctext, pf, hist>>
  /\ History

\* lines 96-102: read, duplicate check, splice
ClaimRead(r) ==
  /\ req[r].pc = "read"
  /\ \E t \in read_orchestrator_file(ORCH_FILE) :
       LET f == Fields(req[r].data)
           u == insert_claim_line(t, ClaimLine(f))
       IN req' = [req EXCEPT ![r] =
            IF AlreadyClaimed(t, f.task_id)
            THEN [@ EXCEPT !.pc = "done", !.full_text = t,
                           !.resp = Resp(409, "task already claimed")]
            ELSE IF u = Raised
            THEN [@ EXCEPT !.pc = "done", !.full_text = t, !.resp = Resp(500, "ValueError")]
            ELSE [@ EXCEPT !.pc = "open", !.full_text = t, !.updated = u]]
  /\ Silent
  /\ UNCHANGED <<ORCH_FILE, ORCH_WRITE_TOKEN, wpc, last_mtime, wtext, cpc, ctext, pf, hist>>
  /\ History

\* line 103, write_text opening the file for writing: the file is created or
\* truncated; or the open fails and nothing changes
ClaimOpen(r) ==
  /\ req[r].pc = "open"
  /\ \/ /\ \E m \in Stamps : ORCH_FILE' = Present(<<>>, m)
        /\ req' = [req EXCEPT ![r].pc = "write", ![r].writes = @ + 1]
     \/ /\ UNCHANGED ORCH_FILE
        /\ req' = Done(r, Resp(500, DENIED))
  /\ Silent
  /\ UNCHANGED <<ORCH_WRITE_TOKEN, wpc, last_mtime, wtext, cpc, ctext, pf, hist>>
  /\ History

\* line 103, what a write of new at offset 0 leaves of a file that holds cur:
\* the handler truncated the file when it opened it, and what another writer
\* has put beyond the end of new since then stays
Overlay(cur, new) == new \o SliceFrom(cur, Len(new))

\* line 103, write_text writing the text and closing: the text is written from
\* the start of the file; or encoding or writing fails and the file is left as
\* the open left it.  A file unlinked since the open is not brought back by the
\* write.
ClaimWrite(r) ==
  /\ req[r].pc \in {"write", "write_unlinked"}
  /\ \/ /\ IF req[r].pc = "write"
           THEN \E m \in Stamps :
                  ORCH_FILE' = Present(Overlay(ORCH_FILE.text, req[r].updated), m)
           ELSE UNCHANGED ORCH_FILE
        /\ req' = [req EXCEPT ![r].pc = "emit", ![r].writes = @ + 1]
     \/ /\ UNCHANGED ORCH_FILE
        /\ req' = Done(r, Resp(500, "write failed"))
  /\ Silent
  /\ UNCHANGED <<ORCH_WRITE_TOKEN, wpc, last_mtime, wtext, cpc, ctext, pf, hist>>
  /\ History

\* line 108
ClaimEmit(r) ==
  /\ req[r].pc = "emit"
  /\ req' = [req EXCEPT ![r].pc = "respond", ![r].emits = @ + 1]
  /\ Broadcast(parse_sections(req[r].updated))
  /\ UNCHANGED <<ORCH_FILE, ORCH_WRITE_TOKEN, wpc, last_mtime, wtext, cpc, ctext, pf, hist>>
  /\ History

\* line 109
ClaimRespond(r) ==
  /\ req[r].pc = "respond"
  /\ req' = Done(r, Resp(200, ""))
  /\ Silent
  /\ UNCHANGED <<ORCH_FILE, ORCH_WRITE_TOKEN, wpc, last_mtime, wtext, cpc, ctext, pf, hist>>
  /\ History

\* ------------------------------------------------------------------ watcher
\* lines 115-117 without line 117: the timestamp is compared and not remembered
WatcherStatForgetting ==
  /\ wpc = "stat"
  /\ \/ /\ ORCH_FILE.exists
        /\ wpc' = IF ORCH_FILE.mtime # last_mtime THEN "read" ELSE "sleep"
     \/ /\ ~ORCH_FILE.exists
        /\ wpc' = "missing"
     \/ /\ wpc' = "dead"
  /\ UNCHANGED last_mtime
  /\ Silent
  /\ UNCHANGED <<ORCH_FILE, ORCH_WRITE_TOKEN, req, wtext, cpc, ctext, pf, hist>>
  /\ History

\* lines 115-117 with the comparison of line 116 always true: every tick that
\* finds the file reads it
WatcherStatEager ==
  /\ wpc = "stat"
  /\ \/ /\ ORCH_FILE.exists
        /\ last_mtime' = ORCH_FILE.mtime /\ wpc' = "read"
     \/ /\ ~ORCH_FILE.exists
        /\ wpc' = "missing"
        /\ UNCHANGED last_mtime
     \/ /\ wpc' = "dead"
        /\ UNCHANGED last_mtime
  /\ Silent
  /\ UNCHANGED <<ORCH_FILE, ORCH_WRITE_TOKEN, req, wtext, cpc, ctext, pf, hist>>
  /\ History

\* lines 115-117 and the except clause: stat, compare, remember
WatcherStat ==
  /\ wpc = "stat"
  /\ \/ /\ ORCH_FILE.exists
        /\ IF ORCH_FILE.mtime # last_mtime
           THEN last_mtime' = ORCH_FILE.mtime /\ wpc' = "read"
           ELSE UNCHANGED last_mtime /\ wpc' = "sleep"
     \/ /\ ~ORCH_FILE.exists            \* FileNotFoundError
        /\ wpc' = "missing"
        /\ UNCHANGED last_mtime
     \/ /\ wpc' = "dead"                \* any other OSError leaves the loop
        /\ UNCHANGED last_mtime
  /\ Silent
  /\ UNCHANGED <<ORCH_FILE, ORCH_WRITE_TOKEN, req, wtext, cpc, ctext, pf, hist>>
  /\ History

\* line 118
WatcherRead ==
  /\ wpc = "read"
  /\ \E t \in read_orchestrator_file(ORCH_FILE) : wtext' = t
  /\ wpc' = "emit"
  /\ Silent
  /\ UNCHANGED <<ORCH_FILE, ORCH_WRITE_TOKEN, req, last_mtime, cpc, ctext, pf, hist>>
  /\ History

\* line 119
WatcherEmit ==
  /\ wpc = "emit"
  /\ Broadcast(parse_sections(wtext))
  /\ wtext' = <<>>
  /\ wpc' = "sleep"
  /\ UNCHANGED <<ORCH_FILE, ORCH_WRITE_TOKEN, req, last_mtime, cpc, ctext, pf, hist>>
  /\ History

\* lines 120-126 without the except clause's own SectionSet: the error string
\* of a read of the missing file is parsed and broadcast
WatcherEmitMissingParsed ==
  /\ wpc = "missing"
  /\ Broadcast(parse_sections(ErrorText(NOT_FOUND)))
  /\ wpc' = "sleep"
  /\ UNCHANGED <<ORCH_FILE, ORCH_WRITE_TOKEN, req, last_mtime, wtext, cpc, ctext, pf, hist>>
  /\ History

\* lines 120-126
WatcherEmitMissing ==
  /\ wpc = "missing"
  /\ Broadcast(MissingSet)
  /\ wpc' = "sleep"
  /\ UNCHANGED <<ORCH_FILE, ORCH_WRITE_TOKEN, req, last_mtime, wtext, cpc, ctext, pf, hist>>
  /\ History

\* line 127, and back to the head of the loop
WatcherSleep ==
  /\ wpc = "sleep"
  /\ wpc' = "stat"
  /\ Silent
  /\ UNCHANGED <<ORCH_FILE, ORCH_WRITE_TOKEN, req, last_mtime, wtext, cpc, ctext, pf, hist>>
  /\ History

\* --------------------------------------------------------------- on_connect
\* line 131
ConnectRead ==
  /\ cpc = "idle"
  /\ \E t \in read_orchestrator_file(ORCH_FILE) : ctext' = t
  /\ cpc' = "emit"
  /\ Silent
  /\ UNCHANGED <<ORCH_FILE, ORCH_WRITE_TOKEN, req, wpc, last_mtime, wtext, pf, hist>>
  /\ History

\* line 132
ConnectEmit ==
  /\ cpc = "emit"
  /\ Broadcast(parse_sections(ctext))
  /\ ctext' = <<>>
  /\ cpc' = "idle"
  /\ UNCHANGED <<ORCH_FILE, ORCH_WRITE_TOKEN, req, wpc, last_mtime, wtext, pf, hist>>
  /\ History

\* ------------------------------------------------- the file's other writers
\* an editor outside the process rewrites, creates or touches the file
ExtWrite(d, m) ==
  /\ ORCH_FILE # Present(d, m)
  /\ ORCH_FILE' = Present(d, m)
  /\ Silent
  /\ UNCHANGED <<ORCH_WRITE_TOKEN, req, wpc, last_mtime, wtext, cpc, ctext, pf, hist>>
  /\ History

\* the file is removed; a handler that holds it open goes on writing to the
\* unlinked file
ExtDelete ==
  /\ ORCH_FILE.exists
  /\ ORCH_FILE' = Absent
  /\ req' = [r \in Reqs |-> IF req[r].pc = "write"
                            THEN [req[r] EXCEPT !.pc = "write_unlinked"] ELSE req[r]]
  /\ Silent
  /\ UNCHANGED <<ORCH_WRITE_TOKEN, wpc, last_mtime, wtext, cpc, ctext, pf, hist>>
  /\ History

\* ----------------------------------------------------------- specifications
InitSys(files, tokens, w, h) ==
  /\ ORCH_FILE \in files
  /\ ORCH_WRITE_TOKEN \in tokens
  /\ req = [r \in Reqs |-> IdleReq]
  /\ wpc = w
  /\ last_mtime = 0
  /\ wtext = <<>>
  /\ cpc = "idle"
  /\ ctext = <<>>
  /\ emit = <<>>
  /\ last_update = <<>>
  /\ unseen = IF "changes" \in h THEN 1 ELSE 0   \* what the file is at the start counts as a change
  /\ wseen = 0
  /\ wprev = FALSE
  /\ pf = PfIdle
  /\ hist = h

\* the process with its watcher, one claim handler, the connect handler and
\* the file's other writers
Init == InitSys(Files(WatchDocs, MTimes), {SECRET}, "stat", {})

Next ==
  \/ \E d \in WatchSubmissions : ClaimArrive("r1", d)
  \/ ClaimRead("r1")
  \/ ClaimOpen("r1")
  \/ ClaimWrite("r1")
  \/ ClaimEmit("r1")
  \/ ClaimRespond("r1")
  \/ WatcherStat
  \/ WatcherRead
  \/ WatcherEmit
  \/ WatcherEmitMissing
  \/ WatcherSleep
  \/ ConnectRead
  \/ ConnectEmit
  \/ \E d \in WatchDocs, m \in MTimes : ExtWrite(d, m)
  \/ ExtDelete

Spec == Init /\ [][Next]_vars

\* the same, with the history of changes recorded
InitHist == InitSys(Files(WatchDocs, MTimes), {SECRET}, "stat", {"changes"})

SpecHist == InitHist /\ [][Next]_vars

\* the same, with the viewers' latest update recorded
InitView == InitSys(Files(WatchDocs, MTimes), {SECRET}, "stat", {"view"})

SpecView == InitView /\ [][Next]_vars

\* the same with both recorded, and with an editor whose every write gives
\* the file a timestamp it did not have just before
InitBoth == InitSys(Files(WatchDocs, MTimes), {SECRET}, "stat", {"changes", "view"})

ExtWriteFresh(d, m) == (ORCH_FILE.exists => m # ORCH_FILE.mtime) /\ ExtWrite(d, m)

NextFresh ==
  \/ \E d \in WatchSubmissions : ClaimArrive("r1", d)
  \/ ClaimRead("r1")
  \/ ClaimOpen("r1")
  \/ ClaimWrite("r1")
  \/ ClaimEmit("r1")
  \/ ClaimRespond("r1")
  \/ WatcherStat
  \/ WatcherRead
  \/ WatcherEmit
  \/ WatcherEmitMissing
  \/ WatcherSleep
  \/ ConnectRead
  \/ ConnectEmit
  \/ \E d \in WatchDocs, m \in MTimes : ExtWriteFresh(d, m)
  \/ ExtDelete

SpecBoth == InitBoth /\ [][NextFresh]_vars

\* the claim endpoint alone, one submission after another, over a file that
\* other writers edit
InitClaim == InitSys(Files(Docs, {0}), {"", SECRET}, "off", {})

NextOne(r) ==
  \/ \E d \in Submissions : ClaimArrive(r, d) /\ \A q \in Reqs : ~InFlight(q)
  \/ ClaimRead(r)
  \/ ClaimOpen(r)
  \/ ClaimWrite(r)
  \/ ClaimEmit(r)
  \/ ClaimRespond(r)

NextClaim ==
  \/ \E r \in Reqs : NextOne(r)
  \/ \E d \in Docs : ExtWrite(d, 0)
  \/ ExtDelete

SpecClaim == InitClaim /\ [][NextClaim]_vars

\* two claim handlers running together over a file nobody else edits
InitRace == InitSys({Present(DocFresh, 0)}, {SECRET}, "off", {})

NextRace ==
  \E r \in Reqs :
    \/ \E d \in RaceSubmissions : ClaimArrive(r, d)
    \/ ClaimRead(r)
    \/ ClaimOpen(r)
    \/ ClaimWrite(r)
    \/ ClaimEmit(r)
    \/ ClaimRespond(r)

SpecRace == InitRace /\ [][NextRace]_vars

\* ------------------------------------------------- the splicer on its own
\* the pieces a text of the splicer specification is made of
Units == {<<ACTIVE_CLAIMS>>, <<BLOCKERS>>, <<NL>>, Placeholder, <<PlaceholderHead>>, <<"x">>}

RECURSIVE Flatten(_)
Flatten(us) == IF us = <<>> THEN <<>> ELSE Head(us) \o Flatten(Tail(us))

PureTexts == {Flatten(us) : us \in UNION {[1..n -> Units] : n \in 0..MaxPureLen}}

PureLines ==
  { ClaimLine(Fields(Base)),
    ClaimLine(Fields([Base EXCEPT !.scope = <<BLOCKERS>>])),
    ClaimLine(Fields([Base EXCEPT !.scope = Placeholder])),
    <<SP, "y", NL>> }

InitSplice ==
  /\ ORCH_FILE = Absent
  /\ ORCH_WRITE_TOKEN = ""
  /\ req = [r \in Reqs |-> IdleReq]
  /\ wpc = "off" /\ last_mtime = 0 /\ wtext = <<>> /\ cpc = "idle" /\ ctext = <<>>
  /\ emit = <<>> /\ last_update = <<>> /\ unseen = 0 /\ wseen = 0 /\ wprev = FALSE
  /\ hist = {}
  /\ \E t \in PureTexts, l \in PureLines :
       pf = [op |-> "args", full_text |-> t, line |-> l, out |-> <<>>]

\* a call of insert_claim_line(full_text, line)
ApplyInsert ==
  /\ pf.op = "args"
  /\ pf' = [pf EXCEPT !.op = "insert_claim_line",
                      !.out = insert_claim_line(pf.full_text, pf.line)]
  /\ UNCHANGED <<ORCH_FILE, ORCH_WRITE_TOKEN, req, wpc, last_mtime, wtext, cpc, ctext,
                 emit, last_update, unseen, wseen, wprev, hist>>

NextSplice == ApplyInsert

SpecSplice == InitSplice /\ [][NextSplice]_vars

\* -------------------------------------------------- the parser on its own
\* the pieces a text of the parser specification is made of
ParseUnits == {TASK_BOARD, ACTIVE_CLAIMS, BLOCKERS, ACTIVITY_LOG, NL, "x"}

ParseTexts == UNION {[1..n -> ParseUnits] : n \in 0..MaxPureLen}

InitParse ==
  /\ ORCH_FILE = Absent
  /\ ORCH_WRITE_TOKEN = ""
  /\ req = [r \in Reqs |-> IdleReq]
  /\ wpc = "off" /\ last_mtime = 0 /\ wtext = <<>> /\ cpc = "idle" /\ ctext = <<>>
  /\ emit = <<>> /\ last_update = <<>> /\ unseen = 0 /\ wseen = 0 /\ wprev = FALSE
  /\ hist = {}
  /\ \E t \in ParseTexts :
       pf = [op |-> "text", full_text |-> t, line |-> <<>>, out |-> <<>>]

\* a call of parse_sections(full_text)
ApplyParse ==
  /\ pf.op = "text"
  /\ pf' = [pf EXCEPT !.op = "parse_sections", !.out = parse_sections(pf.full_text)]
  /\ UNCHANGED <<ORCH_FILE, ORCH_WRITE_TOKEN, req, wpc, last_mtime, wtext, cpc, ctext,
                 emit, last_update, unseen, wseen, wprev, hist>>

NextParse == ApplyParse

SpecParse == InitParse /\ [][NextParse]_vars

\* ------------------------------------------------------------- properties
\* where a text's Active Claims section starts, and where its Blockers marker is
StartOf(text) == Find(text, <<ACTIVE_CLAIMS>>, 0)
BlockersOf(text) == Find(text, <<BLOCKERS>>, StartOf(text))

\* handler r takes its read step (lines 96-102)
ReadStep(r) == req[r].pc = "read" /\ req'[r].pc # "read"

\* C1 (as claimed): after a submission has succeeded, an identical submission
\* that reads the file as that submission left it is answered 409 "task
\* already claimed" and leaves the file as it is.
C1_DuplicateRejected ==
  [][\A r, q \in Reqs :
       ( /\ req[q].pc = "done" /\ req[q].resp.code = 200
         /\ req[r].data = req[q].data
         /\ ReadStep(r)
         /\ ORCH_FILE.exists /\ ORCH_FILE.text = req[q].updated
         /\ req'[r].full_text = ORCH_FILE.text )
       => /\ req'[r].pc = "done"
          /\ req'[r].resp = Resp(409, "task already claimed")
          /\ ORCH_FILE' = ORCH_FILE]_vars

\* the responses that reject what the client sent
Rejections ==
  { Resp(401, "unauthorized"), Resp(400, "invalid taskId"), Resp(400, "missing fields"),
    Resp(409, "task already claimed") }

\* C2: a step that ends a submission in unauthorized, invalid taskId, missing
\* fields or task already claimed leaves the file as it is and emits nothing,
\* and the submission has not modified the file or emitted before it.
C2_RejectionNoEffect ==
  [][\A r \in Reqs :
       (req'[r] # req[r] /\ req'[r].pc = "done" /\ req'[r].resp \in Rejections)
       => /\ ORCH_FILE' = ORCH_FILE
          /\ emit' = <<>>
          /\ req'[r].writes = 0 /\ req'[r].emits = 0]_vars

\* C2 witness: a submission was rejected as already claimed by a file that
\* holds a claim line, and another was rejected for its token
C2_Witness ==
  /\ ORCH_FILE.exists /\ ClaimLines(ORCH_FILE.text) = 1
  /\ req["r1"].pc = "done" /\ req["r1"].resp = Resp(409, "task already claimed")
  /\ req["r2"].pc = "done" /\ req["r2"].resp = Resp(401, "unauthorized")

\* C3: a submission gets past authorization (reads the file, writes it, or is
\* answered anything but 401) only if a secret is configured and the token
\* supplied equals it; with no secret configured every submission, the one with
\* an empty token too, is answered 401 unauthorized.
C3_AuthorizationGate ==
  \A r \in Reqs :
    /\ (InFlight(r) \/ req[r].writes > 0 \/ req[r].resp.code \notin {0, 401})
         => (ORCH_WRITE_TOKEN # "" /\ req[r].data.token = ORCH_WRITE_TOKEN)
    /\ (ORCH_WRITE_TOKEN = "" /\ req[r].pc # "idle")
         => (req[r].pc = "done" /\ req[r].resp = Resp(401, "unauthorized") /\ req[r].writes = 0)

\* C3 witness: with no secret configured, a submission with an empty token and
\* one with a token were both answered 401
C3_Witness ==
  /\ ORCH_WRITE_TOKEN = ""
  /\ req["r1"].data.token = "" /\ req["r1"].resp.code = 401
  /\ req["r2"].data.token = SECRET /\ req["r2"].resp.code = 401

\* C4 (as claimed): every modification of the file by a claim handler leaves
\* the complete spliced text in it, so that no state shows a reader anything
\* but the text from before the submission or the spliced text.
C4_WholeTextOnly ==
  [][\A r \in Reqs :
       (req'[r] # req[r] /\ ORCH_FILE' # ORCH_FILE /\ ORCH_FILE'.exists)
       => ORCH_FILE'.text = req[r].updated]_vars

\* the splicer has no section to splice into
Lacks(text) == StartOf(text) = -1 \/ BlockersOf(text) = -1

\* C5 (as claimed): a submission that reads a text without an Active Claims
\* marker, or without a Blockers marker after it, is answered 500, and writes
\* and emits nothing.
C5_RefusedAsClaimed ==
  [][\A r \in Reqs :
       (ReadStep(r) /\ Lacks(req'[r].full_text))
       => /\ req'[r].pc = "done" /\ req'[r].resp.code = 500
          /\ ORCH_FILE' = ORCH_FILE /\ emit' = <<>>
          /\ req'[r].writes = 0 /\ req'[r].emits = 0]_vars

\* C5 (amended): such a submission is answered 500 with the splicer's error,
\* unless the duplicate check that comes first finds the task id in the text
\* from the Active Claims marker on and answers 409; either way it writes and
\* emits nothing.
C5_Refused ==
  [][\A r \in Reqs :
       (ReadStep(r) /\ Lacks(req'[r].full_text))
       => /\ req'[r].pc = "done"
          /\ req'[r].resp =
               IF AlreadyClaimed(req'[r].full_text, Fields(req[r].data).task_id)
               THEN Resp(409, "task already claimed")
               ELSE Resp(500, "ValueError")
          /\ ORCH_FILE' = ORCH_FILE /\ emit' = <<>>
          /\ req'[r].writes = 0 /\ req'[r].emits = 0]_vars

\* C5 witness: one submission read a text with an Active Claims marker and no
\* Blockers marker, another the error string of a failed read, and both were
\* answered 500 with the file left as it was
C5_Witness ==
  /\ req["r1"].pc = "done" /\ req["r1"].resp = Resp(500, "ValueError")
  /\ req["r1"].full_text = DocNoBlockers /\ req["r1"].writes = 0
  /\ req["r2"].pc = "done" /\ req["r2"].resp = Resp(500, "ValueError")
  /\ req["r2"].full_text = ErrorText(NOT_FOUND)
  /\ ORCH_FILE = Absent

\* C8 (as claimed): every broadcast answers a change of content that had no
\* broadcast yet: none is broadcast twice and none while the file is untouched.
C8_ExactlyOnce ==
  [][emit' # <<>> => unseen >= 1]_vars

\* C8 (amended): while the file's modification timestamp stays what it is, the
\* watcher finds the file changed at most once, whatever else runs.
C8_OncePerTimestamp == wseen <= 1

\* C8 witness: the watcher has found the change, broadcast the content and gone
\* to sleep, and has found no further change on a later tick of the same file
C8_Witness ==
  /\ wseen = 1 /\ wpc = "sleep" /\ emit = <<>> /\ wprev
  /\ ORCH_FILE.exists /\ last_mtime = ORCH_FILE.mtime /\ unseen = 0

\* C9 (as claimed): a tick that finds the file present, when the tick before
\* found it absent or no tick has found it present yet, reads and broadcasts it.
C9_AppearanceDetected ==
  [][(wpc = "stat" /\ wpc' \in {"read", "sleep"} /\ ~wprev) => wpc' = "read"]_vars

\* C10 (as claimed): whatever a tick meets, the watcher is there for the next one.
C10_WatcherNeverStops == wpc # "dead"

\* the call of the splicer specification has returned a text
Spliced == pf.op = "insert_claim_line" /\ pf.out # Raised

\* C6 (as claimed): whenever insert_claim_line returns a text, that text's prefix
\* up to its first Active Claims marker and its suffix from the first Blockers
\* marker following it are the input's prefix and suffix at the same markers.
C6_FrameByMarkers ==
  Spliced =>
    /\ Slice(pf.out, 0, StartOf(pf.out)) = Slice(pf.full_text, 0, StartOf(pf.full_text))
    /\ BlockersOf(pf.out) # -1
    /\ SliceFrom(pf.out, BlockersOf(pf.out)) = SliceFrom(pf.full_text, BlockersOf(pf.full_text))

\* the section of a text, from the marker to the Blockers marker
SectionOf(text) == Slice(text, StartOf(text), BlockersOf(text))

\* the section is its header line and the placeholder line, nothing else
OnlyPlaceholder(text) ==
  LET section == SectionOf(text)
      header_end == Find(section, <<NL>>, 0)
  IN /\ StartOf(text) # -1 /\ BlockersOf(text) # -1
     /\ header_end # -1
     /\ ~Contains(Slice(section, 0, header_end), <<PlaceholderHead>>)
     /\ Strip(SliceFrom(section, header_end)) = Placeholder

\* the header line of the section, without the whitespace at its end
HeaderOf(text) ==
  LET section == SectionOf(text) IN RStrip(Slice(section, 0, Find(section, <<NL>>, 0)))

ReadErrors == {ErrorText(NOT_FOUND), ErrorText(DENIED)}

\* C11 (as claimed): a failed read is surfaced to the viewers. The update the
\* watcher or the connect handler broadcasts from a failed read differs from
\* the update of an empty document.
C11_ReadFailureSurfaced ==
  [][/\ (wpc = "emit" /\ wtext \in ReadErrors /\ emit' # <<>>)
          => emit'[1] # parse_sections(<<>>)
     /\ (cpc = "emit" /\ ctext \in ReadErrors /\ emit' # <<>>)
          => emit'[1] # parse_sections(<<>>)]_vars

\* the first occurrence of a marker in a text
FirstOf(text, marker) == Find(text, <<marker>>, 0)

\* the four markers occur in a text, their first occurrences in the order
\* Task Board, Active Claims, Blockers, Activity Log
WellFormed(text) ==
  /\ FirstOf(text, TASK_BOARD) # -1
  /\ FirstOf(text, TASK_BOARD) < FirstOf(text, ACTIVE_CLAIMS)
  /\ FirstOf(text, ACTIVE_CLAIMS) < FirstOf(text, BLOCKERS)
  /\ FirstOf(text, BLOCKERS) < FirstOf(text, ACTIVITY_LOG)

\* the call of the parser specification has returned, for a well-formed text
ParsedWellFormed == pf.op = "parse_sections" /\ WellFormed(pf.full_text)

\* C12 (as claimed): for a text with the four markers in order, each section is
\* the trimmed text strictly between its own marker and the next marker, to the
\* end of the text for activity_log.
C12_StrictlyBetween ==
  ParsedWellFormed =>
    LET t == pf.full_text
        tb == FirstOf(t, TASK_BOARD)
        ac == FirstOf(t, ACTIVE_CLAIMS)
        bl == FirstOf(t, BLOCKERS)
        al == FirstOf(t, ACTIVITY_LOG)
    IN /\ pf.out.task_board = Strip(Slice(t, tb + 1, ac))
       /\ pf.out.active_claims = Strip(Slice(t, ac + 1, bl))
       /\ pf.out.blockers = Strip(Slice(t, bl + 1, al))
       /\ pf.out.activity_log = Strip(SliceFrom(t, al + 1))

\* C12 (amended): for a text whose first occurrences of the four markers are in
\* order, the sections are the trimmed pieces of the partition of the text, from
\* the first marker on, at those four occurrences: each section starts with its
\* own marker and ends before the next marker, activity_log at the end of the
\* text.
C12_FromMarkerToNext ==
  ParsedWellFormed =>
    LET t == pf.full_text
        tb == FirstOf(t, TASK_BOARD)
        ac == FirstOf(t, ACTIVE_CLAIMS)
        bl == FirstOf(t, BLOCKERS)
        al == FirstOf(t, ACTIVITY_LOG)
    IN /\ pf.out.task_board = Strip(Slice(t, tb, ac))
       /\ pf.out.active_claims = Strip(Slice(t, ac, bl))
       /\ pf.out.blockers = Strip(Slice(t, bl, al))
       /\ pf.out.activity_log = Strip(SliceFrom(t, al))
       /\ Slice(t, tb, ac) \o Slice(t, ac, bl) \o Slice(t, bl, al) \o SliceFrom(t, al)
            = SliceFrom(t, tb)

\* C12 witness: a text with the four markers in order, content and whitespace
\* between them, was parsed and its blockers section came out trimmed
C12_Witness ==
  /\ pf.op = "parse_sections"
  /\ pf.full_text = <<TASK_BOARD, ACTIVE_CLAIMS, BLOCKERS, NL, "x", ACTIVITY_LOG>>
  /\ pf.out.blockers = <<BLOCKERS, NL, "x">>
  /\ pf.out.activity_log = <<ACTIVITY_LOG>>

\* the claim line of the submission in slot r
LineOf(r) == ClaimLine(Fields(req[r].data))

\* both submissions have been answered 200 and both had read the same text:
\* neither read what the other wrote
Raced(r, q) ==
  /\ r # q
  /\ req[r].pc = "done" /\ req[r].resp.code = 200
  /\ req[q].pc = "done" /\ req[q].resp.code = 200
  /\ req[r].full_text = req[q].full_text

\* C13 (as claimed): when two submissions that both read the file before either
\* wrote have both been answered 200, the file holds the text spliced by one of
\* them, the one that wrote last, and never both of two different claim lines.
C13_LastWriterWins ==
  \A r, q \in Reqs :
    Raced(r, q) =>
      /\ ORCH_FILE.exists
      /\ ORCH_FILE.text \in {req[r].updated, req[q].updated}
      /\ LineOf(r) # LineOf(q)
           => ~(Contains(ORCH_FILE.text, LineOf(r)) /\ Contains(ORCH_FILE.text, LineOf(q)))

\* C14: a tick whose stat meets the file with the remembered modification
\* timestamp reads nothing, emits nothing and leaves the remembered timestamp as
\* it is, and so does the sleep that ends the tick.
C14_UnchangedIsSilent ==
  [][/\ (wpc = "stat" /\ wpc' # "stat" /\ ORCH_FILE.exists /\ ORCH_FILE.mtime = last_mtime)
          => /\ wpc' \notin {"read", "emit", "missing"}
             /\ emit' = <<>>
             /\ wtext' = wtext
             /\ last_mtime' = last_mtime
     /\ (wpc = "sleep" /\ wpc' # "sleep")
          => (wpc' = "stat" /\ emit' = <<>> /\ wtext' = wtext /\ last_mtime' = last_mtime)]_vars

\* C14 witness: the watcher's last stat found the file, the file carries the
\* remembered timestamp, no change has been found since that timestamp was set,
\* nothing has been read or is being emitted, and the watcher is asleep
C14_Witness ==
  /\ wpc = "sleep" /\ wprev /\ wseen = 0
  /\ ORCH_FILE.exists /\ ORCH_FILE.mtime = last_mtime
  /\ wtext = <<>> /\ emit = <<>>

\* C15: a tick whose stat reports the file absent broadcasts the fixed update
\* (task_board the not-found message, the other sections empty), leaves the
\* remembered timestamp as it is and goes on to the sleep and the next tick;
\* this holds for every such tick, the ones that follow one another too.
C15_MissingBranch ==
  [][/\ (wpc = "stat" /\ wpc' = "missing")
          => (~ORCH_FILE.exists /\ emit' = <<>> /\ last_mtime' = last_mtime)
     /\ (wpc = "stat" /\ wpc' \in {"read", "sleep"}) => ORCH_FILE.exists
     /\ (wpc = "missing" /\ wpc' # "missing")
          => /\ emit' = << [ task_board |-> <<"AGENTS_ORCHESTRATOR.txt not found">>,
                            active_claims |-> <<>>, blockers |-> <<>>,
                            activity_log |-> <<>> ] >>
             /\ last_mtime' = last_mtime
             /\ wtext' = wtext
             /\ wpc' = "sleep"]_vars

\* C15 witness: the watcher has broadcast the fixed update for the absent file
\* and is asleep, with a timestamp remembered from before the file went away
C15_Witness ==
  /\ wpc = "sleep" /\ ~ORCH_FILE.exists
  /\ emit = <<MissingSet>>
  /\ last_mtime = MaxMtime

\* C16: the checks of a submission come in the order authorization, task id
\* prefix, required fields, duplicate check, splice and write, and the answer
\* is that of the first check that fails: 401, 400 invalid taskId, 400 missing
\* fields, 409, 500.  A submission that fails one of the first three has not
\* read the file, and one that fails the duplicate check or the splice has not
\* written it.
C16_RejectionPrecedence ==
  \A r \in Reqs :
    req[r].pc # "idle" =>
      LET d == req[r].data
          f == Fields(d)
          t == req[r].full_text
          untouched == req[r].pc = "done" /\ t = <<>> /\ req[r].writes = 0
      IN IF ~Authorized(ORCH_WRITE_TOKEN, d.token)
         THEN req[r].resp = Resp(401, "unauthorized") /\ untouched
         ELSE IF ~ValidTaskId(f.task_id)
         THEN req[r].resp = Resp(400, "invalid taskId") /\ untouched
         ELSE IF ~AllPresent(f)
         THEN req[r].resp = Resp(400, "missing fields") /\ untouched
         ELSE IF req[r].pc = "read"
         THEN req[r].resp = NoResp /\ t = <<>>
         ELSE IF AlreadyClaimed(t, f.task_id)
         THEN /\ req[r].pc = "done" /\ req[r].writes = 0
              /\ req[r].resp = Resp(409, "task already claimed")
         ELSE IF insert_claim_line(t, ClaimLine(f)) = Raised
         THEN /\ req[r].pc = "done" /\ req[r].writes = 0
              /\ req[r].resp = Resp(500, "ValueError")
         ELSE /\ req[r].resp.code \in {0, 200, 500}
              /\ req[r].resp.code = 200 => req[r].writes = 2

\* C16 witness: a submission with a wrong token, a malformed task id and a
\* missing field was answered 401; one that read a text in which its task id is
\* already claimed and the Blockers marker is missing was answered 409
C16_Witness ==
  /\ req["r1"].pc = "done" /\ req["r1"].resp = Resp(401, "unauthorized")
  /\ ORCH_WRITE_TOKEN = SECRET /\ req["r1"].data.token = "wrong"
  /\ ~ValidTaskId(Fields(req["r1"].data).task_id) /\ ~AllPresent(Fields(req["r1"].data))
  /\ req["r2"].pc = "done" /\ req["r2"].resp = Resp(409, "task already claimed")
  /\ req["r2"].full_text = DocNoBlockers

\* C17 (as claimed): a submission emits once, after its write and before its
\* response; the update it emits is the parse of the text it wrote, whose
\* active_claims holds the new claim line; and it is answered 200 only with the
\* write and that one emit behind it.
C17_SuccessOrdering ==
  [][\A r \in Reqs :
       /\ (req[r].pc = "emit" /\ req'[r].pc = "respond")
            => /\ req[r].writes = 2 /\ req[r].emits = 0
               /\ emit' = <<parse_sections(req[r].updated)>>
               /\ Contains(emit'[1].active_claims, LineOf(r))
       /\ (req[r].resp.code # 200 /\ req'[r].resp.code = 200)
            => (req[r].pc = "respond" /\ req[r].writes = 2 /\ req[r].emits = 1)]_vars

\* the markers in the order of their keys, and the sections of a parse in the
\* same order
Keys == <<TASK_BOARD, ACTIVE_CLAIMS, BLOCKERS, ACTIVITY_LOG>>
Sections(out) == <<out.task_board, out.active_claims, out.blockers, out.activity_log>>

\* the piece of the text that section i is cut from: from the first occurrence
\* of its marker to the next key's marker after it, or to the end of the text
StartAt(text, i) == FirstOf(text, Keys[i])
EndAt(text, i) ==
  IF i = Len(Keys) THEN Len(text)
  ELSE LET e == Find(text, <<Keys[i + 1]>>, StartAt(text, i))
       IN IF e = -1 THEN Len(text) ELSE e

\* the keys whose marker occurs in the text
PresentKeys(text) == {i \in 1..Len(Keys) : StartAt(text, i) # -1}

\* C18 (as claimed): for every text, a section whose marker is absent is empty,
\* the pieces the other sections are cut from follow one another in the order
\* of the keys without overlap and without gap, and activity_log runs to the
\* end of the text.
C18_ContiguousForAll ==
  pf.op = "parse_sections" =>
    LET t == pf.full_text
        P == PresentKeys(t)
    IN /\ \A i \in 1..Len(Keys) \ P : Sections(pf.out)[i] = <<>>
       /\ \A i, j \in P : i < j => EndAt(t, i) <= StartAt(t, j)
       /\ \A i, j \in P : (i < j /\ \A k \in P : ~(i < k /\ k < j))
                             => EndAt(t, i) = StartAt(t, j)
       /\ 4 \in P => pf.out.activity_log = Strip(SliceFrom(t, StartAt(t, 4)))

\* C18 (amended): for every text, a section whose marker is absent is empty; a
\* section whose marker occurs is the trimmed piece from the first occurrence
\* of its marker to the first occurrence of the next key's marker at or after
\* it, to the end of the text if there is none and for activity_log, so it
\* begins with its own marker; and the pieces follow one another without
\* overlap and without gap when the four first occurrences are in key order.
C18_SectionsForAll ==
  pf.op = "parse_sections" =>
    LET t == pf.full_text
        P == PresentKeys(t)
    IN /\ \A i \in 1..Len(Keys) \ P : Sections(pf.out)[i] = <<>>
       /\ \A i \in P : /\ Sections(pf.out)[i] = Strip(Slice(t, StartAt(t, i), EndAt(t, i)))
                       /\ Head(Sections(pf.out)[i]) = Keys[i]
       /\ 4 \in P => pf.out.activity_log = Strip(SliceFrom(t, StartAt(t, 4)))
       /\ WellFormed(t) => \A i \in 1..3 : EndAt(t, i) = StartAt(t, i + 1)

\* C18 witness: a text with no Active Claims marker was parsed: active_claims
\* is empty, task_board runs to the end of the text and holds the whole of
\* the blockers section
C18_Witness ==
  /\ pf.op = "parse_sections"
  /\ pf.full_text = <<TASK_BOARD, "x", BLOCKERS, NL>>
  /\ pf.out.active_claims = <<>> /\ pf.out.activity_log = <<>>
  /\ pf.out.task_board = <<TASK_BOARD, "x", BLOCKERS>>
  /\ pf.out.blockers = <<BLOCKERS>>

\* a claim line as a whole line of a text
AsLine(line) == <<NL>> \o line \o <<NL>>

\* C19 (as claimed): when a submission has succeeded on the text that an earlier
\* successful submission with another claim line wrote, the text it wrote holds
\* the earlier claim line still as one whole line, and its own line after it.
C19_EarlierClaimsSurvive ==
  \A r, q \in Reqs :
    ( /\ r # q /\ LineOf(r) # LineOf(q)
      /\ req[q].pc = "done" /\ req[q].resp.code = 200
      /\ req[r].pc = "done" /\ req[r].resp.code = 200
      /\ req[r].full_text = req[q].updated )
    => LET u == req[r].updated
       IN /\ Contains(u, AsLine(LineOf(q)))
          /\ Find(u, AsLine(LineOf(q)), 0) < Find(u, AsLine(LineOf(r)), 0)

\* nothing is under way and nothing is left for the watcher to find: no
\* submission and no connect is in flight, the watcher has ended a tick and is
\* asleep, and the file is there with the timestamp the watcher remembers
Quiescent ==
  /\ \A r \in Reqs : ~InFlight(r)
  /\ cpc = "idle"
  /\ wpc = "sleep" /\ wtext = <<>>
  /\ ORCH_FILE.exists /\ ORCH_FILE.mtime = last_mtime

\* C20 (as claimed): when nothing is under way and nothing is left for the
\* watcher to find, the update the viewers received last is the parse of what
\* the file holds.  Stated for the runs in which the watcher did find the
\* file's present timestamp when it was set, the file has not changed since the
\* last broadcast, and that broadcast came from a read that succeeded.
C20_ViewerConvergence ==
  ( /\ Quiescent
    /\ wseen = 1 /\ unseen = 0
    /\ last_update \in {<<parse_sections(d)>> : d \in WatchDocs} )
  => last_update = <<parse_sections(ORCH_FILE.text)>>

====
